---- MODULE Spec2Model ----
(***************************************************************************)
(* Model of the password strength checker of src/main.py.                  *)
(*                                                                         *)
(* A password is a sequence of characters.  A character is a string: an    *)
(* ASCII character stands for itself ("\n" is the newline), a non-ASCII    *)
(* character is written by its code point ("U+00E9" is e-acute, "U+4E2D"   *)
(* a CJK ideograph, "U+0130" capital I with dot above, whose lower case is *)
(* the two characters i, U+0307).                                          *)
(*                                                                         *)
(* math.log2(charset_size) * len(password) is a float in the source; here  *)
(* the entropy is kept in millionths of a bit (floor(log2(n) * 10^6) *     *)
(* len).  The only charset size whose logarithm is rational is 256, where  *)
(* the value is exact; for the others the comparison with 30, 40 and 60    *)
(* bits agrees with the float's for every length below 200.                *)
(***************************************************************************)
EXTENDS Integers, Sequences, FiniteSets

\* ------------------------------------------------------------- characters

ascii_lowercase ==
    << "a","b","c","d","e","f","g","h","i","j","k","l","m",
       "n","o","p","q","r","s","t","u","v","w","x","y","z" >>

ascii_uppercase ==
    << "A","B","C","D","E","F","G","H","I","J","K","L","M",
       "N","O","P","Q","R","S","T","U","V","W","X","Y","Z" >>

digits == << "0","1","2","3","4","5","6","7","8","9" >>

\* string.punctuation: 32 characters (the grave accent, which a TLA+ string
\* cannot hold, is written U+0060)
punctuation ==
    << "!","\"","#","$","%","&","'","(",")","*","+",",","-",".","/",
       ":",";","<","=",">","?","@","[","\\","]","^","_","U+0060","{","|","}","~" >>

Range(s) == { s[i] : i \in 1..Len(s) }

\* the characters of each string constant, for "c in string.<constant>"
Lowercase   == Range(ascii_lowercase)
Uppercase   == Range(ascii_uppercase)
Digits      == Range(digits)
Punctuation == Range(punctuation)

\* str.lower() of one character: a sequence, since U+0130 lowers to two
lower_char(c) ==
    IF c \in Uppercase
      THEN << ascii_lowercase[CHOOSE i \in 1..26 : ascii_uppercase[i] = c] >>
    ELSE IF c = "U+00C9" THEN << "U+00E9" >>
    ELSE IF c = "U+0130" THEN << "i", "U+0307" >>
    ELSE << c >>

\* str.lower(): the lower case of each character, in order
lower(s) ==
    LET low[i \in 0..Len(s)] ==
            IF i = 0 THEN << >> ELSE low[i - 1] \o lower_char(s[i])
    IN  low[Len(s)]

\* ---------------------------------------------------------------- regexes

\* any(c in <class> for c in s), and re.search of the class [A-Z], [a-z] or
\* [0-9], which hold the same characters as the string constants
SearchClass(class, s) == \E i \in 1..Len(s) : s[i] \in class

\* re.search(r'[^A-Za-z0-9]', s): a character outside the three ranges
SearchNotAlnum(s) ==
    \E i \in 1..Len(s) :
        /\ s[i] \notin Uppercase
        /\ s[i] \notin Lowercase
        /\ s[i] \notin Digits

\* re.search(r'(.)\1{2,}', s): without re.DOTALL the dot matches every
\* character but the newline
SearchRepeated(s) ==
    \E i \in 1..(Len(s) - 2) :
        /\ s[i] # "\n"
        /\ s[i + 1] = s[i]
        /\ s[i + 2] = s[i]

\* re.search of a literal
SearchLiteral(p, s) ==
    \E i \in 0..(Len(s) - Len(p)) : \A j \in 1..Len(p) : s[i + j] = p[j]

CommonPatterns ==
    { << "1","2","3" >>,
      << "a","b","c" >>,
      << "q","w","e","r","t","y" >>,
      << "p","a","s","s","w","o","r","d" >>,
      << "a","d","m","i","n" >> }

\* re.search(r'(123|abc|qwerty|password|admin)', password.lower())
SearchCommon(s) ==
    LET low == lower(s)
    IN  \E p \in CommonPatterns : SearchLiteral(p, low)

\* ------------------------------------------------------ calculate_entropy

charset_size(pw) ==
    LET classes ==
            (IF SearchClass(Lowercase, pw) THEN 26 ELSE 0)
          + (IF SearchClass(Uppercase, pw) THEN 26 ELSE 0)
          + (IF SearchClass(Digits, pw) THEN 10 ELSE 0)
          + (IF SearchClass(Punctuation, pw) THEN 33 ELSE 0)
    IN  IF classes = 0 THEN 256 ELSE classes

\* floor(math.log2(n) * 10^6) for the sizes charset_size can return
Log2Micro(n) ==
    CASE n = 10  -> 3321928
      [] n = 26  -> 4700439
      [] n = 33  -> 5044394
      [] n = 36  -> 5169925
      [] n = 43  -> 5426264
      [] n = 52  -> 5700439
      [] n = 59  -> 5882643
      [] n = 62  -> 5954196
      [] n = 69  -> 6108524
      [] n = 85  -> 6409390
      [] n = 95  -> 6569855
      [] n = 256 -> 8000000

\* in millionths of a bit
calculate_entropy(pw) ==
    IF pw = << >> THEN 0
    ELSE Log2Micro(charset_size(pw)) * Len(pw)

Bits(n) == n * 1000000

\* ------------------------------------------------ check_password_strength
\* The running score and the feedback list after each rule, in the order of
\* the source; pw is the parameter password.

MsgEmpty    == "Enter a password to check its strength"
MsgShort    == "Password is too short (minimum 8 characters recommended)"
MsgUpper    == "Add uppercase letters"
MsgLower    == "Add lowercase letters"
MsgDigit    == "Add numbers"
MsgSpecial  == "Add special characters (!@#$%^&*)"
MsgRepeated == "Avoid repeated characters"
MsgCommon   == "Avoid common patterns and words"
MsgDefault  == "Password meets basic security requirements"

LengthPoints(pw) ==
    IF Len(pw) >= 12 THEN 30
    ELSE IF Len(pw) >= 8 THEN 20
    ELSE IF Len(pw) >= 6 THEN 10
    ELSE 0

ScoreAfterLength(pw) == 0 + LengthPoints(pw)

FeedbackAfterLength(pw) ==
    IF Len(pw) >= 6 THEN << >> ELSE << MsgShort >>

HasUpper(pw) == SearchClass(Uppercase, pw)

ScoreAfterUpper(pw) ==
    ScoreAfterLength(pw) + (IF HasUpper(pw) THEN 10 ELSE 0)

FeedbackAfterUpper(pw) ==
    FeedbackAfterLength(pw)
        \o (IF HasUpper(pw) THEN << >> ELSE << MsgUpper >>)

HasLower(pw) == SearchClass(Lowercase, pw)

ScoreAfterLower(pw) ==
    ScoreAfterUpper(pw) + (IF HasLower(pw) THEN 10 ELSE 0)

FeedbackAfterLower(pw) ==
    FeedbackAfterUpper(pw)
        \o (IF HasLower(pw) THEN << >> ELSE << MsgLower >>)

HasDigit(pw) == SearchClass(Digits, pw)

ScoreAfterDigit(pw) ==
    ScoreAfterLower(pw) + (IF HasDigit(pw) THEN 10 ELSE 0)

FeedbackAfterDigit(pw) ==
    FeedbackAfterLower(pw)
        \o (IF HasDigit(pw) THEN << >> ELSE << MsgDigit >>)

\* mutant: the punctuation class of calculate_entropy used for the rule
HasSpecial_Punctuation(pw) == SearchClass(Punctuation, pw)

HasSpecial(pw) == SearchNotAlnum(pw)

ScoreAfterSpecial(pw) ==
    ScoreAfterDigit(pw) + (IF HasSpecial(pw) THEN 15 ELSE 0)

FeedbackAfterSpecial(pw) ==
    FeedbackAfterDigit(pw)
        \o (IF HasSpecial(pw) THEN << >> ELSE << MsgSpecial >>)

HasRepeated(pw) == SearchRepeated(pw)

ScoreAfterRepeated(pw) ==
    ScoreAfterSpecial(pw) - (IF HasRepeated(pw) THEN 10 ELSE 0)

FeedbackAfterRepeated(pw) ==
    FeedbackAfterSpecial(pw)
        \o (IF HasRepeated(pw) THEN << MsgRepeated >> ELSE << >>)

HasCommon(pw) == SearchCommon(pw)

\* mutant: the penalty taken once for each pattern found
ScoreAfterCommon_PerPattern(pw) ==
    ScoreAfterRepeated(pw)
        - 15 * Cardinality({ p \in CommonPatterns : SearchLiteral(p, lower(pw)) })

ScoreAfterCommon(pw) ==
    ScoreAfterRepeated(pw) - (IF HasCommon(pw) THEN 15 ELSE 0)

FeedbackAfterCommon(pw) ==
    FeedbackAfterRepeated(pw)
        \o (IF HasCommon(pw) THEN << MsgCommon >> ELSE << >>)

\* mutant: non-strict comparisons
EntropyBonus_NonStrict(entropy) ==
    IF entropy >= Bits(60) THEN 25
    ELSE IF entropy >= Bits(40) THEN 15
    ELSE IF entropy >= Bits(30) THEN 10
    ELSE 0

\* mutant: three independent ifs instead of if / elif / elif
EntropyBonus_Cumulative(entropy) ==
      (IF entropy > Bits(60) THEN 25 ELSE 0)
    + (IF entropy > Bits(40) THEN 15 ELSE 0)
    + (IF entropy > Bits(30) THEN 10 ELSE 0)

EntropyBonus(entropy) ==
    IF entropy > Bits(60) THEN 25
    ELSE IF entropy > Bits(40) THEN 15
    ELSE IF entropy > Bits(30) THEN 10
    ELSE 0

\* the score just before it is capped
ScoreAfterEntropy(pw) ==
    ScoreAfterCommon(pw) + EntropyBonus(calculate_entropy(pw))

Min(a, b) == IF a <= b THEN a ELSE b
Max(a, b) == IF a >= b THEN a ELSE b

\* mutant: the lower cap left out
CapScore_NoFloor(score) == Min(100, score)

CapScore(score) == Max(0, Min(100, score))

\* mutant: strict thresholds
Category_Strict(score) ==
    IF score > 80 THEN [strength |-> "Very Strong", color |-> "green"]
    ELSE IF score > 60 THEN [strength |-> "Strong", color |-> "lightgreen"]
    ELSE IF score > 40 THEN [strength |-> "Medium", color |-> "orange"]
    ELSE IF score > 20 THEN [strength |-> "Weak", color |-> "red"]
    ELSE [strength |-> "Very Weak", color |-> "darkred"]

Category(score) ==
    IF score >= 80 THEN [strength |-> "Very Strong", color |-> "green"]
    ELSE IF score >= 60 THEN [strength |-> "Strong", color |-> "lightgreen"]
    ELSE IF score >= 40 THEN [strength |-> "Medium", color |-> "orange"]
    ELSE IF score >= 20 THEN [strength |-> "Weak", color |-> "red"]
    ELSE [strength |-> "Very Weak", color |-> "darkred"]

\* mutant: the default message appended whatever the list holds
FinalFeedback_Always(feedback) == feedback \o << MsgDefault >>

FinalFeedback(feedback) ==
    IF feedback = << >> THEN << MsgDefault >> ELSE feedback

EmptyResult ==
    [score    |-> 0,
     strength |-> "None",
     color    |-> "gray",
     feedback |-> << MsgEmpty >>]

\* mutant: the category chosen before the entropy bonus is added
Evaluate_CategoryEarly(pw) ==
    LET score == CapScore(ScoreAfterEntropy(pw))
        cat   == Category(CapScore(ScoreAfterCommon(pw)))
    IN  [score    |-> score,
         strength |-> cat.strength,
         color    |-> cat.color,
         feedback |-> FinalFeedback(FeedbackAfterCommon(pw)),
         entropy  |-> calculate_entropy(pw)]

Evaluate(pw) ==
    LET score == CapScore(ScoreAfterEntropy(pw))
        cat   == Category(score)
    IN  [score    |-> score,
         strength |-> cat.strength,
         color    |-> cat.color,
         feedback |-> FinalFeedback(FeedbackAfterCommon(pw)),
         entropy  |-> calculate_entropy(pw)]

\* mutant: no early return for the empty password
check_password_strength_NoEmpty(pw) == Evaluate(pw)

check_password_strength(pw) ==
    IF pw = << >> THEN EmptyResult ELSE Evaluate(pw)

\* ------------------------------------------------------------ the session
\* main() is run again on every change of the text input, and hands the
\* field's value to check_password_strength.

MaxInputs == 3

\* single keystrokes
Keys == { "a", "A", "1", "!", " ", "\n", "U+00E9", "U+4E2D", "U+0130" }

\* pasted texts
Clipboard ==
    { << "1","2","3" >>,
      << "a","b","c" >>,
      << "q","w","e","r","t","y" >>,
      << "P","a","s","s","w","o","r","d" >>,
      << "A","D","M","I","N" >>,
      << "a","d","m" >>,
      << "x","Y","7","z" >>,
      << "U+4E2D","U+4E2D","U+4E2D","U+4E2D" >>,
      << "T","r","0","u","b","4","d","o","r","&","3","x","z","9","Q","m" >> }

VARIABLES password, result, inputs

vars == << password, result, inputs >>

Init ==
    /\ password = << >>
    /\ result = check_password_strength(<< >>)
    /\ inputs = 0

Rerun(text) ==
    /\ inputs < MaxInputs
    /\ inputs' = inputs + 1
    /\ password' = text
    /\ result' = check_password_strength(text)

TypeKey == \E c \in Keys : Rerun(Append(password, c))

Paste == \E w \in Clipboard : Rerun(password \o w)

Clear == password # << >> /\ Rerun(<< >>)

Next == TypeKey \/ Paste \/ Clear

Spec == Init /\ [][Next]_vars

\* ------------------------------------------------------------- properties

Count(seq, x) == Cardinality({ i \in 1..Len(seq) : seq[i] = x })

\* three equal characters in a row, whatever the character
HasRun(s) == \E i \in 1..(Len(s) - 2) : s[i + 1] = s[i] /\ s[i + 2] = s[i]

\* the ASCII characters that are neither letters nor digits (of the
\* unprintable ones, those a text can plausibly hold)
AsciiNotAlnum == Punctuation \cup { " ", "\t", "\n", "\r" }

InNoClass(c) ==
    c \notin Lowercase \cup Uppercase \cup Digits \cup Punctuation

Password123 == << "P","a","s","s","w","o","r","d","1","2","3","!" >>

\* the passwords the current one is compared with: those of at most two inputs
Texts == { << c >> : c \in Keys } \cup Clipboard

ReferencePasswords ==
    { << >> } \cup Texts \cup { a \o b : a \in Texts, b \in Texts }

ReferenceResults ==
    { [password |-> q, result |-> check_password_strength(q)] :
        q \in ReferencePasswords }

\* C1: the score returned for any password, empty or not, is an integer
\* between 0 and 100.
C1_ScoreInRange == result.score \in 0..100

C1_Witness ==
    /\ password # << >>
    /\ ScoreAfterEntropy(password) < 0
    /\ result.score = 0

\* what the comparison reads of each reference result
ReferenceLabels ==
    { [empty    |-> ref.password = << >>,
       score    |-> ref.result.score,
       strength |-> ref.result.strength,
       color    |-> ref.result.color] : ref \in ReferenceResults }

\* C2 as stated: any two passwords, the empty one included, that get the same
\* score get the same strength label and the same color.
C2_Original ==
    \A ref \in ReferenceLabels :
        ref.score = result.score
            => /\ ref.strength = result.strength
               /\ ref.color = result.color

\* C2, amended: any two non-empty passwords that get the same score get the
\* same strength label and the same color.
C2_SameScoreSameLabel ==
    \A ref \in ReferenceLabels :
        (~ref.empty /\ password # << >> /\ ref.score = result.score)
            => /\ ref.strength = result.strength
               /\ ref.color = result.color

C2_Witness ==
    /\ password # << >>
    /\ \E ref \in ReferenceResults :
        /\ ref.password # << >>
        /\ Len(ref.password) # Len(password)
        /\ ref.result.score = result.score
        /\ ref.result.entropy # result.entropy
        /\ ref.result.feedback # result.feedback
        /\ ref.result.strength = result.strength
        /\ ref.result.color = result.color

\* C3: the empty password gets exactly score 0, strength "None", color
\* "gray", the single message "Enter a password to check its strength" and no
\* entropy field; a non-empty password gets an entropy field and a strength
\* other than "None".
C3_EmptyShortCircuit ==
    IF password = << >>
      THEN result = [score    |-> 0,
                     strength |-> "None",
                     color    |-> "gray",
                     feedback |-> << "Enter a password to check its strength" >>]
      ELSE "entropy" \in DOMAIN result /\ result.strength # "None"

C3_Witness == inputs > 0 /\ password = << >> /\ result.strength = "None"

\* C4: the feedback of a non-empty password is never empty; it is the single
\* message "Password meets basic security requirements" exactly when no rule
\* produced a message (length at least 6, all four character rules met, no
\* repeat, no common pattern), and that message never comes with another.
C4_FeedbackNeverEmpty ==
    password # << >> =>
        LET affirm  == "Password meets basic security requirements"
            noRule  == /\ Len(password) >= 6
                       /\ HasUpper(password)
                       /\ HasLower(password)
                       /\ HasDigit(password)
                       /\ HasSpecial(password)
                       /\ ~HasRepeated(password)
                       /\ ~HasCommon(password)
        IN  /\ result.feedback # << >>
            /\ (result.feedback = << affirm >>) <=> noRule
            /\ affirm \in Range(result.feedback) => Len(result.feedback) = 1

C4_Witness ==
    /\ password # << >>
    /\ result.feedback = << "Password meets basic security requirements" >>

\* C5: for a non-empty password the strength and color follow from the
\* returned score by the thresholds 80, 60, 40, 20, highest first.
C5_CategoryThresholds ==
    password # << >> =>
        << result.strength, result.color >> =
            IF result.score >= 80 THEN << "Very Strong", "green" >>
            ELSE IF result.score >= 60 THEN << "Strong", "lightgreen" >>
            ELSE IF result.score >= 40 THEN << "Medium", "orange" >>
            ELSE IF result.score >= 20 THEN << "Weak", "red" >>
            ELSE << "Very Weak", "darkred" >>

C5_Witness ==
    /\ password # << >>
    /\ result.score = 80
    /\ result.strength = "Very Strong"

\* C6 as stated: the Special rule adds 15 exactly when the password holds a
\* non-alphanumeric ASCII character, and otherwise adds nothing and appends
\* "Add special characters (!@#$%^&*)".
C6_Original ==
    password # << >> =>
        LET special == \E i \in 1..Len(password) : password[i] \in AsciiNotAlnum
        IN  /\ ScoreAfterSpecial(password) - ScoreAfterDigit(password)
                 = (IF special THEN 15 ELSE 0)
            /\ ("Add special characters (!@#$%^&*)" \in Range(result.feedback))
                 <=> ~special

\* C6, amended: the Special rule adds 15 exactly when the password holds a
\* character that is not an ASCII letter or an ASCII digit (a non-ASCII
\* character counts), and otherwise adds nothing and appends the message.
C6_SpecialRule ==
    password # << >> =>
        LET special ==
                \E i \in 1..Len(password) :
                    password[i] \notin Lowercase \cup Uppercase \cup Digits
        IN  /\ ScoreAfterSpecial(password) - ScoreAfterDigit(password)
                 = (IF special THEN 15 ELSE 0)
            /\ ("Add special characters (!@#$%^&*)" \in Range(result.feedback))
                 <=> ~special

C6_Witness ==
    /\ \E i \in 1..Len(password) : password[i] = "U+00E9"
    /\ \E i \in 1..Len(password) : password[i] \in Lowercase
    /\ \A i \in 1..Len(password) : password[i] \notin AsciiNotAlnum
    /\ ScoreAfterSpecial(password) - ScoreAfterDigit(password) = 15
    /\ "Add special characters (!@#$%^&*)" \notin Range(result.feedback)

\* C7: the repeat penalty (10 off and "Avoid repeated characters", once) is
\* applied exactly when some character, a newline included, occurs three or
\* more times in a row.
C7_RepeatPenalty ==
    password # << >> =>
        /\ ScoreAfterRepeated(password) - ScoreAfterSpecial(password)
             = (IF HasRun(password) THEN -10 ELSE 0)
        /\ Count(result.feedback, "Avoid repeated characters")
             = (IF HasRun(password) THEN 1 ELSE 0)

\* C8: the common-pattern penalty is applied exactly when the lower-cased
\* password holds one of "123", "abc", "qwerty", "password", "admin"; it takes
\* 15 off once and appends "Avoid common patterns and words" once, however
\* many patterns match; "Password123!" scores 85.
C8_CommonPenaltyOnce ==
    password # << >> =>
        LET low    == lower(password)
            common == \/ SearchLiteral(<< "1","2","3" >>, low)
                      \/ SearchLiteral(<< "a","b","c" >>, low)
                      \/ SearchLiteral(<< "q","w","e","r","t","y" >>, low)
                      \/ SearchLiteral(<< "p","a","s","s","w","o","r","d" >>, low)
                      \/ SearchLiteral(<< "a","d","m","i","n" >>, low)
        IN  /\ ScoreAfterCommon(password) - ScoreAfterRepeated(password)
                 = (IF common THEN -15 ELSE 0)
            /\ Count(result.feedback, "Avoid common patterns and words")
                 = (IF common THEN 1 ELSE 0)
            /\ password = Password123 => result.score = 85

C8_Witness ==
    /\ password = Password123
    /\ result.score = 85
    /\ result.feedback = << "Avoid common patterns and words" >>

\* C9: the entropy bonus is 25 above 60 bits, else 15 above 40, else 10 above
\* 30, else 0, all strict; five characters outside the four classes have the
\* alphabet 256, exactly 40 bits, and get 10, not 15.
C9_EntropyBonusStrict ==
    password # << >> =>
        LET bonus == ScoreAfterEntropy(password) - ScoreAfterCommon(password)
        IN  /\ bonus = (IF result.entropy > 60 * 1000000 THEN 25
                        ELSE IF result.entropy > 40 * 1000000 THEN 15
                        ELSE IF result.entropy > 30 * 1000000 THEN 10
                        ELSE 0)
            /\ (Len(password) = 5 /\ \A i \in 1..5 : InNoClass(password[i]))
                 => /\ charset_size(password) = 256
                    /\ result.entropy = 40 * 1000000
                    /\ bonus = 10

C9_Witness ==
    /\ Len(password) = 5
    /\ \A i \in 1..5 : InNoClass(password[i])
    /\ result.entropy = 40 * 1000000
    /\ ScoreAfterEntropy(password) - ScoreAfterCommon(password) = 10

\* C10: for a non-empty password the score just before the cap is at most
\* 100, so only the lower cap can change it.
C10_UpperCapIdle ==
    password # << >> =>
        /\ ScoreAfterEntropy(password) <= 100
        /\ result.score = Max(0, ScoreAfterEntropy(password))

C10_Witness ==
    /\ password # << >>
    /\ ScoreAfterEntropy(password) = 100
    /\ result.score = 100

====
